---- MODULE Spec2Model ----
(***************************************************************************)
(* Forward-looking consumers of the switchback pricing experiment:         *)
(* src/switchback_experiment/consumers.py and utility_functions.py, and    *)
(* the firm that runs the experiment: src/switchback_experiment/firms.py.  *)
(*                                                                         *)
(* Python floats are modelled as exact rationals <<n, d>> (d > 0, lowest   *)
(* terms); float('inf') and float('-inf') are <<1, 0>> and <<-1, 0>>.      *)
(* Rounding of IEEE doubles is not modelled.                               *)
(***************************************************************************)
EXTENDS Integers, Sequences, FiniteSets, TLC

VARIABLES
    price_info,   \* the PriceInfo the driver currently holds
    consumer,     \* the consumer object (an AnalyticConsumer or a GridpointConsumer)
    firm,         \* the ExperimentingFirm object, None where no firm is constructed
    ret           \* the last call: its name, argument, return value, and self before it

vars == <<price_info, consumer, firm, ret>>

(***************************************************************************)
(* Bounds of the model.                                                    *)
(***************************************************************************)
\* grid_size the Gridpoint consumers are constructed with
MaxGridSize == 3

\* periods a firm is driven through: update calls per run
MaxPeriods == 3

(***************************************************************************)
(* Rational arithmetic standing for Python float arithmetic.               *)
(* The operations are functions, so that an operand is evaluated once, to a  *)
(* value, before the operation uses it.                                    *)
(***************************************************************************)
Abs(n) == IF n < 0 THEN -n ELSE n

Rational == Int \X Int

GCD[a \in Nat, b \in Nat] == IF b = 0 THEN a ELSE GCD[b, a % b]

Lowest[n \in Int, d \in Int] ==
    LET g == GCD[Abs(n), Abs(d)]
        s == IF d < 0 THEN -1 ELSE 1
    IN  <<(s * n) \div g, (s * d) \div g>>

Frac(n, d) == Lowest[n, d]

R(n) == <<n, 1>>
PosInf == <<1, 0>>
NegInf == <<-1, 0>>

\* a/b + c/d over the least common denominator; products cancel crosswise first
Sum[a \in Rational, b \in Rational] ==
    LET g == GCD[a[2], b[2]]
    IN  Lowest[a[1] * (b[2] \div g) + b[1] * (a[2] \div g), (a[2] \div g) * b[2]]

Product[a \in Rational, b \in Rational] ==
    LET g1 == GCD[Abs(a[1]), b[2]]
        g2 == GCD[Abs(b[1]), a[2]]
    IN  Lowest[(a[1] \div g1) * (b[1] \div g2), (a[2] \div g2) * (b[2] \div g1)]

Negative[a \in Rational] == <<-a[1], a[2]>>

Inverse[a \in Rational] == IF a[1] < 0 THEN <<-a[2], -a[1]>> ELSE <<a[2], a[1]>>

Less[a \in Rational, b \in Rational] ==
    IF a[2] = 0 \/ b[2] = 0
    THEN IF a[2] = 0 /\ b[2] = 0 THEN a[1] < b[1] ELSE a[1] * b[2] < b[1] * a[2]
    ELSE LET g == GCD[a[2], b[2]]
         IN  a[1] * (b[2] \div g) < b[1] * (a[2] \div g)

RAdd(a, b) == Sum[a, b]
RNeg(a) == Negative[a]
RSub(a, b) == Sum[a, Negative[b]]
RMul(a, b) == Product[a, b]
RInv(a) == Inverse[a]
RDiv(a, b) == Product[a, Inverse[b]]
RLt(a, b) == Less[a, b]
RLe(a, b) == ~RLt(b, a)
RGt(a, b) == RLt(b, a)
RGe(a, b) == ~RLt(a, b)
Smaller[a \in Rational, b \in Rational] == IF Less[b, a] THEN b ELSE a
RMin(a, b) == Smaller[a, b]

\* Python's None
None == <<>>

Min(a, b) == IF a < b THEN a ELSE b

\* the element of a one-element set; Only({B(x) : x \in {e}}) is B of the
\* value of e, as a local variable x = e gives it
Only(S) == CHOOSE r \in S : TRUE

(***************************************************************************)
(* utility_functions.py                                                    *)
(***************************************************************************)
LinearUnitDemand(value) == [class |-> "LinearUnitDemand", param |-> value]
\* CRRA.__init__ raises ValueError for gamma == 1
ValueError == [class |-> "ValueError"]
\* the gamma == 1 test left out of the constructor
CRRA_Unchecked(gamma) == [class |-> "CRRA", param |-> gamma]

CRRA(gamma) == IF gamma = R(1) THEN ValueError ELSE [class |-> "CRRA", param |-> gamma]
QuasiLinear(alpha) == [class |-> "QuasiLinear", param |-> alpha]

\* np.log(1 + c) at the two consumption levels a purchase flag denotes:
\* log(1) = 0 and log(2), the latter to one decimal (0.7)
Log1p(c) == IF c = R(0) THEN R(0) ELSE Frac(7, 10)

\* bool -> float, as Python coerces True/False in arithmetic
AsNumber(purchased) == IF purchased THEN R(1) ELSE R(0)

LinearUnitDemand_utility(self, purchased, price) ==
    IF purchased THEN RSub(self.param, price) ELSE R(0)

CRRA_utility(self, purchased, price) ==
    IF purchased THEN RSub(RDiv(R(1), RSub(R(1), self.param)), price) ELSE R(0)

QuasiLinear_utility(self, consumption, price) ==
    RSub(RMul(self.param, Log1p(consumption)), price)

utility(self, purchased, price) ==
    CASE self.class = "LinearUnitDemand" -> LinearUnitDemand_utility(self, purchased, price)
      [] self.class = "CRRA" -> CRRA_utility(self, purchased, price)
      [] self.class = "QuasiLinear" -> QuasiLinear_utility(self, AsNumber(purchased), price)

LinearUnitDemand_marginal_utility(self, consumption) ==
    IF RLt(consumption, R(1)) THEN self.param ELSE R(0)

LinearUnitDemand_inverse_marginal_utility(self, mu) ==
    IF RGe(mu, self.param) THEN R(1) ELSE R(0)

CRRA_marginal_utility(self, consumption) ==
    IF RLt(consumption, R(1)) THEN R(1) ELSE R(0)

CRRA_inverse_marginal_utility(self, mu) ==
    IF RGe(mu, R(1)) THEN R(1) ELSE R(0)

QuasiLinear_marginal_utility(self, consumption) ==
    RDiv(self.param, RAdd(R(1), consumption))

QuasiLinear_inverse_marginal_utility(self, mu) ==
    RSub(RDiv(self.param, mu), R(1))

marginal_utility(self, consumption) ==
    CASE self.class = "LinearUnitDemand" -> LinearUnitDemand_marginal_utility(self, consumption)
      [] self.class = "CRRA" -> CRRA_marginal_utility(self, consumption)
      [] self.class = "QuasiLinear" -> QuasiLinear_marginal_utility(self, consumption)

inverse_marginal_utility(self, mu) ==
    CASE self.class = "LinearUnitDemand" -> LinearUnitDemand_inverse_marginal_utility(self, mu)
      [] self.class = "CRRA" -> CRRA_inverse_marginal_utility(self, mu)
      [] self.class = "QuasiLinear" -> QuasiLinear_inverse_marginal_utility(self, mu)

(***************************************************************************)
(* consumers.py: PriceInfo                                                 *)
(***************************************************************************)
\* the dataclass stores its arguments as given; it has no __post_init__
PriceInfo(prices, probabilities, delta, post_experiment_price) ==
    [prices |-> prices, probabilities |-> probabilities,
     delta |-> delta, post_experiment_price |-> post_experiment_price]

\* zip(price_info.prices, price_info.probabilities): stops at the shorter list
ZipLen(pi) == Min(Len(pi.prices), Len(pi.probabilities))

(***************************************************************************)
(* consumers.py: ConsumerBase, AnalyticConsumer                            *)
(***************************************************************************)
ConsumerBase(kind, utility_function, gamma, budget_constraint) ==
    [kind |-> kind,
     utility_function |-> utility_function,
     gamma |-> gamma,
     budget_constraint |-> budget_constraint,
     has_purchased |-> FALSE,
     grid_size |-> 0,
     value_function |-> None,
     decision_function |-> None,
     m_grid |-> None]

AnalyticConsumer(value, gamma, budget_constraint) ==
    ConsumerBase("Analytic", LinearUnitDemand(value), gamma, budget_constraint)

\* sum(prob for p, prob in zip(...) if p < price), over the first n pairs
RECURSIVE SumProbBelow(_, _, _)
SumProbBelow(pi, price, n) ==
    IF n = 0 THEN R(0)
    ELSE LET rest == SumProbBelow(pi, price, n - 1)
         IN  IF RLt(pi.prices[n], price)
             THEN RAdd(rest, pi.probabilities[n])
             ELSE rest

\* sum(prob * (price - p) for p, prob in zip(...) if p < price)
RECURSIVE SumDiscountBelow(_, _, _)
SumDiscountBelow(pi, price, n) ==
    IF n = 0 THEN R(0)
    ELSE LET rest == SumDiscountBelow(pi, price, n - 1)
         IN  IF RLt(pi.prices[n], price)
             THEN RAdd(rest, RMul(pi.probabilities[n], RSub(price, pi.prices[n])))
             ELSE rest

\* the expected discount left unnormalised: the division by Q dropped
Analytic_get_continuation_value_NoNormalise(self, price, pi) ==
    LET Q == SumProbBelow(pi, price, ZipLen(pi))
        E == IF RGt(Q, R(0)) THEN SumDiscountBelow(pi, price, ZipLen(pi)) ELSE R(0)
    IN  RMul(RMul(RDiv(self.gamma, RSub(R(1), self.gamma)), Q), E)

\* the patience ratio inverted: (1 - gamma) / gamma
Analytic_get_continuation_value_InvertedRatio(self, price, pi) ==
    LET Q == SumProbBelow(pi, price, ZipLen(pi))
        E == IF RGt(Q, R(0))
             THEN RDiv(SumDiscountBelow(pi, price, ZipLen(pi)), Q)
             ELSE R(0)
    IN  RMul(RMul(RDiv(RSub(R(1), self.gamma), self.gamma), Q), E)

Analytic_get_continuation_value(self, price, pi) ==
    LET Q == SumProbBelow(pi, price, ZipLen(pi))
        E == IF RGt(Q, R(0))
             THEN RDiv(SumDiscountBelow(pi, price, ZipLen(pi)), Q)
             ELSE R(0)
    IN  RMul(RMul(RDiv(self.gamma, RSub(R(1), self.gamma)), Q), E)

(***************************************************************************)
(* consumers.py: GridpointConsumer                                         *)
(***************************************************************************)
\* price * 5000 in get_grid
GridMultiplier == 5000

GridpointConsumer(utility_function, gamma, grid_size, budget_constraint) ==
    [ConsumerBase("Gridpoint", utility_function, gamma, budget_constraint)
        EXCEPT !.grid_size = grid_size]

\* np.linspace(0, stop, num)
Linspace(stop, num) == [i \in 1..num |-> RMul(stop, Frac(i - 1, num - 1))]

get_grid(self, price) ==
    LET max_m == RMin(RMul(price, R(GridMultiplier)), self.budget_constraint)
    IN  Linspace(max_m, self.grid_size)

\* scipy interp1d(x, y, bounds_error=False, fill_value=(below, above)), linear
interp1d(x, y, fill_value) == <<x, y, fill_value>>

\* np.searchsorted(x, q): the number of entries of the sorted x that are < q
RECURSIVE SearchSorted(_, _, _)
SearchSorted(x, q, n) ==
    IF n = 0 THEN 0
    ELSE SearchSorted(x, q, n - 1) + (IF RLt(x[n], q) THEN 1 ELSE 0)

\* calling an interpolant f at q
Call(f, q) ==
    LET x == f[1]
        y == f[2]
        n == Len(x)
        found == SearchSorted(x, q, n)
        hi == (IF found < 1 THEN 1 ELSE IF found > n - 1 THEN n - 1 ELSE found) + 1
        lo == hi - 1
        slope == RDiv(RSub(y[hi], y[lo]), RSub(x[hi], x[lo]))
    IN  IF RLt(q, x[1]) THEN f[3][1]
        ELSE IF RGt(q, x[n]) THEN f[3][2]
        ELSE RAdd(RMul(slope, RSub(q, x[lo])), y[lo])

\* the loop of euler_error over zip(prices, probabilities), first n pairs
RECURSIVE FutureValue(_, _, _)
FutureValue(self, pi, n) ==
    IF n = 0 THEN R(0)
    ELSE LET rest == FutureValue(self, pi, n - 1)
             p == pi.prices[n]
             prob == pi.probabilities[n]
         IN  IF self.value_function # None
             THEN RAdd(rest, RMul(prob, Call(self.value_function, p)))
             ELSE RAdd(rest, RMul(prob, utility(self.utility_function, TRUE, p)))

\* the budget test of euler_error left out
euler_error_NoBudgetTest(self, decision, price, pi) ==
    RSub(utility(self.utility_function, decision, price),
         RMul(self.gamma, FutureValue(self, pi, ZipLen(pi))))

euler_error(self, decision, price, pi) ==
    IF RGt(price, self.budget_constraint)
    THEN NegInf
    ELSE RSub(utility(self.utility_function, decision, price),
              RMul(self.gamma, FutureValue(self, pi, ZipLen(pi))))

\* returns the consumer with m_grid assigned, and the returned (m_grid, decisions)
solve_period(self, price, pi) ==
    LET m_grid == get_grid(self, price)
        self1 == [self EXCEPT !.m_grid = m_grid]
        decisions ==
            [i \in 1..Len(m_grid) |->
                IF RGe(m_grid[i], price)
                THEN LET buy_utility == euler_error(self1, TRUE, price, pi)
                         wait_utility == euler_error(self1, FALSE, price, pi)
                     IN  IF RGt(buy_utility, wait_utility) THEN R(1) ELSE R(0)
                ELSE R(0)]
    IN  [self |-> self1, m_grid |-> m_grid, decisions |-> decisions]

update_value_function(self, decisions, price) ==
    LET n == Len(decisions)
        v_points == [i \in 1..n |->
                        utility(self.utility_function, decisions[i] # R(0), price)]
    IN  [self EXCEPT
            !.value_function =
                interp1d(self.m_grid, v_points, <<v_points[1], v_points[n]>>),
            !.decision_function =
                interp1d(self.m_grid, decisions, <<decisions[1], decisions[n]>>)]

\* float(self.value_function(price)), with the consumer as the call leaves it
Evaluate(self, price) == [self |-> self, value |-> Call(self.value_function, price)]

\* the two statements under "if self.value_function is None"
Bootstrap(self, price, pi) ==
    Only({update_value_function(sp.self, sp.decisions, price) :
            sp \in {solve_period(self, price, pi)}})

\* the value function rebuilt on every query instead of once
Gridpoint_get_continuation_value_AlwaysRebuild(self, price, pi) ==
    Only({Evaluate(self1, price) : self1 \in {Bootstrap(self, price, pi)}})

Gridpoint_get_continuation_value(self, price, pi) ==
    Only({Evaluate(self1, price) :
            self1 \in {IF self.value_function = None
                       THEN Bootstrap(self, price, pi)
                       ELSE self}})

\* dispatch on the class of self; returns the consumer after the call and the value
get_continuation_value(self, price, pi) ==
    IF self.kind = "Analytic"
    THEN [self |-> self, value |-> Analytic_get_continuation_value(self, price, pi)]
    ELSE Gridpoint_get_continuation_value(self, price, pi)

\* a tie resolved towards waiting: > in place of >=
DecideStrictly(immediate_util, cv) ==
    IF RGt(immediate_util, cv.value)
    THEN [self |-> [cv.self EXCEPT !.has_purchased = TRUE], result |-> TRUE]
    ELSE [self |-> cv.self, result |-> FALSE]

\* lines 43-47 of should_purchase, cv the solver's answer
Decide(immediate_util, cv) ==
    IF RGe(immediate_util, cv.value)
    THEN [self |-> [cv.self EXCEPT !.has_purchased = TRUE], result |-> TRUE]
    ELSE [self |-> cv.self, result |-> FALSE]

\* the has_purchased test left out of the guard
should_purchase_NoPurchasedTest(self, price, pi) ==
    IF RGt(price, self.budget_constraint)
    THEN [self |-> self, result |-> FALSE]
    ELSE Only({Decide(utility(self.utility_function, TRUE, price), cv) :
                cv \in {get_continuation_value(self, price, pi)}})

\* the solver consulted before the guard is tested
should_purchase_SolverFirst(self, price, pi) ==
    Only({IF self.has_purchased \/ RGt(price, self.budget_constraint)
          THEN [self |-> cv.self, result |-> FALSE]
          ELSE Decide(utility(self.utility_function, TRUE, price), cv) :
            cv \in {get_continuation_value(self, price, pi)}})

should_purchase(self, price, pi) ==
    IF self.has_purchased \/ RGt(price, self.budget_constraint)
    THEN [self |-> self, result |-> FALSE]
    ELSE Only({Decide(utility(self.utility_function, TRUE, price), cv) :
                cv \in {get_continuation_value(self, price, pi)}})

(***************************************************************************)
(* Inputs the drivers pass (tests/test_consumers.py, tests/test_firms.py). *)
(***************************************************************************)
OfferedPrices == {R(80), R(90), R(100)}
Gammas == {Frac(1, 2), Frac(8, 10)}
Budgets == {PosInf, R(85)}

\* price supports: the reference price alone, an unordered pair, and the
\* three-price ladder of the tests
Supports == {<<R(100)>>, <<R(80), R(100)>>, <<R(100), R(90), R(80)>>}

\* probability lists: three that sum to 1, and two that do not
ProbVectors ==
    {<<R(1)>>, <<Frac(6, 10), Frac(4, 10)>>, <<Frac(6, 10), Frac(2, 10), Frac(2, 10)>>,
     <<Frac(6, 10), Frac(2, 10)>>, <<Frac(6, 10), Frac(6, 10), Frac(4, 10)>>}

\* every descriptor a caller can build from them, the lists of unequal
\* length included: the constructor takes any two lists
PriceInfos ==
    {PriceInfo(ps, qs, Frac(1, 100), R(100)) : ps \in Supports, qs \in ProbVectors}

\* the descriptor of tests/test_consumers.py
ExamplePriceInfo ==
    PriceInfo(<<R(100), R(90), R(80)>>, <<Frac(6, 10), Frac(2, 10), Frac(2, 10)>>,
              Frac(1, 100), R(100))

Values == {R(90), R(95)}

GridUtilities ==
    {LinearUnitDemand(v) : v \in Values} \cup {CRRA(R(2)), QuasiLinear(Frac(3, 2))}

AnalyticConsumers ==
    {AnalyticConsumer(v, g, b) : v \in Values, g \in Gammas, b \in Budgets}

GridpointConsumers ==
    {GridpointConsumer(u, Frac(8, 10), n, b) :
        u \in GridUtilities, n \in {MaxGridSize}, b \in Budgets}

Consumers == AnalyticConsumers \cup GridpointConsumers

\* the record of a call: the method, its argument, what it returned, self before
\* the call, and inverse_of: the mu whose inverse_marginal_utility the argument is
Returned(op, arg, result, pre) ==
    [op |-> op, arg |-> arg, result |-> result, pre |-> pre, inverse_of |-> None]

(***************************************************************************)
(* The state machine: one consumer driven through its public methods.      *)
(***************************************************************************)
Init ==
    /\ price_info = ExamplePriceInfo
    /\ consumer \in Consumers
    /\ firm = None
    /\ ret = Returned("__init__", None, None, None)

NewPriceInfo ==
    \E pi \in PriceInfos :
        /\ price_info' = pi
        /\ ret' = Returned("PriceInfo", None, pi, consumer)
        /\ UNCHANGED <<consumer, firm>>

ShouldPurchase ==
    \E price \in OfferedPrices :
        \E r \in {should_purchase(consumer, price, price_info)} :
            /\ consumer' = r.self
            /\ ret' = Returned("should_purchase", price, r.result, consumer)
            /\ UNCHANGED <<price_info, firm>>

GetContinuationValue ==
    \E price \in OfferedPrices :
        \E r \in {get_continuation_value(consumer, price, price_info)} :
            /\ consumer' = r.self
            /\ ret' = Returned("get_continuation_value", price, r.value, consumer)
            /\ UNCHANGED <<price_info, firm>>

SolvePeriod ==
    /\ consumer.kind = "Gridpoint"
    /\ \E price \in OfferedPrices :
        \E r \in {solve_period(consumer, price, price_info)} :
            /\ consumer' = r.self
            /\ ret' = Returned("solve_period", price, <<r.m_grid, r.decisions>>, consumer)
            /\ UNCHANGED <<price_info, firm>>

Next ==
    \/ NewPriceInfo
    \/ ShouldPurchase
    \/ GetContinuationValue

Spec == Init /\ [][Next]_vars

(***************************************************************************)
(* A Gridpoint consumer whose solve_period is also called directly, under  *)
(* one descriptor.                                                         *)
(***************************************************************************)
InitSolve ==
    /\ price_info \in PriceInfos
    /\ consumer \in GridpointConsumers
    /\ firm = None
    /\ ret = Returned("__init__", None, None, None)

NextSolve ==
    \/ SolvePeriod
    \/ GetContinuationValue

SpecSolve == InitSolve /\ [][NextSolve]_vars

(***************************************************************************)
(* The utility function of a consumer called on its own: marginal utility  *)
(* and its inverse.                                                        *)
(***************************************************************************)
UtilityFunctions ==
    {LinearUnitDemand(R(90)), LinearUnitDemand(R(95)), CRRA(R(2)), CRRA(Frac(1, 2)),
     QuasiLinear(Frac(3, 2)), QuasiLinear(R(2))}

MarginalUtilities ==
    {Frac(1, 4), Frac(1, 2), R(1), Frac(3, 2), R(2), R(3), R(95), R(100)}

Consumptions == {R(0), Frac(1, 2), R(1), R(2), R(3)}

InitUtility ==
    /\ price_info = ExamplePriceInfo
    /\ consumer \in {GridpointConsumer(u, Frac(8, 10), MaxGridSize, PosInf) :
                        u \in UtilityFunctions}
    /\ firm = None
    /\ ret = Returned("__init__", None, None, None)

InverseMarginalUtility ==
    \E mu \in MarginalUtilities :
        /\ ret' = Returned("inverse_marginal_utility", mu,
                           inverse_marginal_utility(consumer.utility_function, mu),
                           consumer)
        /\ UNCHANGED <<price_info, consumer, firm>>

\* marginal_utility of a consumption level: a given one, or the one the last
\* inverse_marginal_utility call returned
MarginalUtility ==
    /\ \E c \in Consumptions
              \cup (IF ret.op = "inverse_marginal_utility" THEN {ret.result} ELSE {}) :
        ret' = [Returned("marginal_utility", c,
                         marginal_utility(consumer.utility_function, c), consumer)
                    EXCEPT !.inverse_of =
                        IF ret.op = "inverse_marginal_utility" /\ c = ret.result
                        THEN ret.arg ELSE None]
    /\ UNCHANGED <<price_info, consumer, firm>>

\* gamma values a caller may hand to CRRA(gamma)
RiskAversions == {R(0), Frac(1, 2), R(1), Frac(3, 2), R(2)}

\* utility_functions.CRRA(gamma), and a consumer built on the instance when
\* the constructor returns one
ConstructCRRA ==
    \E gamma \in RiskAversions :
        \E r \in {CRRA(gamma)} :
            /\ ret' = Returned("CRRA", gamma, r, consumer)
            /\ consumer' = IF r = ValueError
                           THEN consumer
                           ELSE GridpointConsumer(r, Frac(8, 10), MaxGridSize, PosInf)
            /\ UNCHANGED <<price_info, firm>>

NextUtility ==
    \/ InverseMarginalUtility
    \/ MarginalUtility
    \/ ConstructCRRA

SpecUtility == InitUtility /\ [][NextUtility]_vars

(***************************************************************************)
(* firms.py: BaseFirm, SwitchbackConfig, ExperimentingFirm                 *)
(***************************************************************************)
\* BaseFirm.__init__(initial_price, marginal_cost, reorder_quantity,
\* initial_inventory), inventory_cost left at its default 0
BaseFirm(initial_price, marginal_cost, reorder_quantity, initial_inventory) ==
    [price |-> initial_price,
     marginal_cost |-> marginal_cost,
     inventory |-> initial_inventory,
     reorder_quantity |-> reorder_quantity,
     inventory_cost |-> R(0),
     market |-> None,
     firm_id |-> None,
     profits |-> <<>>]

\* sum(self.probabilities)
RECURSIVE SumSeq(_, _)
SumSeq(q, n) == IF n = 0 THEN R(0) ELSE RAdd(SumSeq(q, n - 1), q[n])

\* the dataclass and its __post_init__; np.isclose is exact equality here
SwitchbackConfig(reference_price, discount_levels, probabilities, delta, min_inventory_threshold) ==
    IF SumSeq(probabilities, Len(probabilities)) # R(1) THEN ValueError
    ELSE IF Len(discount_levels) # Len(probabilities) - 1 THEN ValueError
    ELSE [reference_price |-> reference_price,
          discount_levels |-> discount_levels,
          probabilities |-> probabilities,
          delta |-> delta,
          min_inventory_threshold |-> min_inventory_threshold]

\* super().__init__ receives the four arguments by position, in the order
\* the source writes them: initial_inventory third, reorder_quantity fourth
ExperimentingFirm(initial_price, marginal_cost, initial_inventory, reorder_quantity, switchback_config) ==
    BaseFirm(initial_price, marginal_cost, initial_inventory, reorder_quantity)
        @@ [config |-> switchback_config,
            experiment_active |-> TRUE,
            stock_out_periods |-> 0,
            last_reorder_period |-> 0]

\* random: the draw of np.random.random(); price_idx: the draw of
\* np.random.choice, 0-based; returns the firm after the call and the price
get_experimental_price(self, random, price_idx) ==
    IF ~self.experiment_active
    THEN [self |-> self, result |-> self.price]
    ELSE IF RLt(random, self.config.delta)
    THEN [self |-> [self EXCEPT !.experiment_active = FALSE], result |-> self.price]
    ELSE IF RLt(self.inventory, self.config.min_inventory_threshold)
    THEN [self |-> self, result |-> self.config.reference_price]
    ELSE IF price_idx = 0
    THEN [self |-> self, result |-> self.config.reference_price]
    ELSE [self |-> self,
          result |-> RSub(self.config.reference_price,
                          self.config.discount_levels[price_idx])]

\* lines 112-129 of update: self after the price is set, actual_sales as capped
Settle(self, actual_sales) ==
    LET revenue == RMul(self.price, actual_sales)
        inventory_cost == RMul(self.inventory_cost, self.inventory)
        left == RSub(self.inventory, actual_sales)
        reorder == RLt(left, self.reorder_quantity)
        production_cost ==
            RAdd(RMul(self.marginal_cost, actual_sales),
                 IF reorder THEN RMul(self.marginal_cost, self.reorder_quantity)
                 ELSE R(0))
        profit == RSub(RSub(revenue, production_cost), inventory_cost)
    IN  [self |-> [self EXCEPT
                    !.inventory = IF reorder THEN RAdd(left, self.reorder_quantity)
                                  ELSE left,
                    !.last_reorder_period = IF reorder THEN Len(self.profits) ELSE @,
                    !.profits = Append(@, profit)],
         result |-> profit]

\* ExperimentingFirm.update(realized_demand), with the two random draws of
\* the get_experimental_price call it makes
update(self, realized_demand, random, price_idx) ==
    LET actual_sales == RMin(realized_demand, self.inventory)
        self1 == IF RLt(actual_sales, realized_demand)
                 THEN [self EXCEPT !.stock_out_periods = @ + 1]
                 ELSE self
    IN  Only({Settle([g.self EXCEPT !.price = g.result], actual_sales) :
                g \in {get_experimental_price(self1, random, price_idx)}})

(***************************************************************************)
(* The firm driven through get_experimental_price and update, as the       *)
(* simulation of tests/test_firms.py drives it.                            *)
(***************************************************************************)
\* the experiment designs: the one of tests/test_firms.py (delta 0), and one
\* whose experiment can end
Configs ==
    {SwitchbackConfig(R(100), <<R(20), R(40)>>,
                      <<Frac(9, 10), Frac(1, 20), Frac(1, 20)>>, R(0), R(5)),
     SwitchbackConfig(R(100), <<R(10)>>, <<Frac(1, 2), Frac(1, 2)>>, Frac(1, 10), R(5))}

\* initial_inventory and reorder_quantity arguments
Quantities == {R(2), R(10)}

\* realized_demand of a period
Demands == {R(0), R(8)}

\* np.random.random() draws in [0, 1): one below every positive delta, one above
RandomDraws == {R(0), Frac(1, 2)}

\* the indices np.random.choice(len(p), p=p) can return
Choices(probabilities) ==
    {i \in 0..(Len(probabilities) - 1) : RGt(probabilities[i + 1], R(0))}

\* the descriptor simulate_firm_consumer_interaction builds from firm.config
PriceInfoOf(config) ==
    PriceInfo(<<config.reference_price>>
                \o [i \in 1..Len(config.discount_levels) |->
                        RSub(config.reference_price, config.discount_levels[i])],
              config.probabilities, config.delta, config.reference_price)

InitFirm ==
    \E config \in Configs, initial_inventory \in Quantities, reorder_quantity \in Quantities :
        /\ firm = ExperimentingFirm(config.reference_price, R(0), initial_inventory,
                                    reorder_quantity, config)
        /\ price_info = PriceInfoOf(config)
        /\ consumer = None
        /\ ret = Returned("ExperimentingFirm",
                          [initial_inventory |-> initial_inventory,
                           reorder_quantity |-> reorder_quantity],
                          None, None)

GetExperimentalPrice ==
    \E random \in RandomDraws, price_idx \in Choices(firm.config.probabilities) :
        \E r \in {get_experimental_price(firm, random, price_idx)} :
            /\ firm' = r.self
            /\ ret' = Returned("get_experimental_price", None, r.result, firm)
            /\ UNCHANGED <<price_info, consumer>>

Update ==
    /\ Len(firm.profits) < MaxPeriods
    /\ \E realized_demand \in Demands, random \in RandomDraws,
          price_idx \in Choices(firm.config.probabilities) :
        \E r \in {update(firm, realized_demand, random, price_idx)} :
            /\ firm' = r.self
            /\ ret' = Returned("update", realized_demand, r.result, firm)
            /\ UNCHANGED <<price_info, consumer>>

NextFirm ==
    \/ GetExperimentalPrice
    \/ Update

SpecFirm == InitFirm /\ [][NextFirm]_vars

(***************************************************************************)
(* Properties.                                                             *)
(***************************************************************************)
IsCall(op) == ret.op = op
OverBudget == RGt(ret.arg, ret.pre.budget_constraint)

\* C1: has_purchased starts false; a should_purchase call that returned true
\* leaves has_purchased true; and once has_purchased is true it stays true and
\* every later should_purchase call returns false, whatever the price and the
\* descriptor.
C1_PurchasedIsTerminal ==
    /\ ~consumer.has_purchased
    /\ [](IsCall("should_purchase") /\ ret.result = TRUE => consumer.has_purchased)
    /\ [][consumer.has_purchased =>
            /\ consumer'.has_purchased
            /\ (ret'.op = "should_purchase" => ret'.result = FALSE)]_vars

\* a should_purchase call on a consumer that had purchased, at an affordable
\* price the consumer's value covers
C1_Witness ==
    /\ IsCall("should_purchase")
    /\ ret.pre.has_purchased
    /\ ~OverBudget
    /\ ret.pre.utility_function.class = "LinearUnitDemand"
    /\ RLt(ret.arg, ret.pre.utility_function.param)
    /\ ret.result = FALSE

\* C2: a should_purchase call on a consumer that has purchased, or at a price
\* above its budget ceiling, returns false and leaves every field of the
\* consumer as it was: has_purchased, value_function, decision_function, m_grid.
C2_GuardedCallChangesNothing ==
    IsCall("should_purchase") /\ (ret.pre.has_purchased \/ OverBudget) =>
        /\ ret.result = FALSE
        /\ consumer.has_purchased = ret.pre.has_purchased
        /\ consumer.value_function = ret.pre.value_function
        /\ consumer.decision_function = ret.pre.decision_function
        /\ consumer.m_grid = ret.pre.m_grid
        /\ consumer = ret.pre

\* a Gridpoint consumer with no value function yet, asked at a price over budget
C2_Witness ==
    /\ IsCall("should_purchase")
    /\ ret.pre.kind = "Gridpoint"
    /\ OverBudget
    /\ ~ret.pre.has_purchased
    /\ ret.pre.value_function = None
    /\ consumer.value_function = None

\* C3: for a consumer that has not purchased and a price within its budget,
\* should_purchase returns true iff utility(true, price) >= the continuation
\* value of its solver (a tie purchases), and has_purchased becomes true exactly
\* when it returns true; Analytic and Gridpoint consumers alike.
C3_DecisionRule ==
    IsCall("should_purchase") /\ ~ret.pre.has_purchased /\ ~OverBudget =>
        LET immediate == utility(ret.pre.utility_function, TRUE, ret.arg)
            cv == get_continuation_value(ret.pre, ret.arg, price_info)
        IN  /\ ret.result = RGe(immediate, cv.value)
            /\ consumer.has_purchased = ret.result

\* a purchase on a tie: immediate utility equal to the continuation value
C3_Witness ==
    /\ IsCall("should_purchase")
    /\ ~ret.pre.has_purchased
    /\ ~OverBudget
    /\ ret.result = TRUE
    /\ utility(ret.pre.utility_function, TRUE, ret.arg)
            = get_continuation_value(ret.pre, ret.arg, price_info).value

\* the sum of f over the finite index set S
RECURSIVE SumOver(_, _)
SumOver(f, S) ==
    IF S = {} THEN R(0)
    ELSE LET i == CHOOSE j \in S : TRUE
         IN  RAdd(f[i], SumOver(f, S \ {i}))

\* the positions of the support whose price is strictly below price
Below(pi, price) == {i \in 1..ZipLen(pi) : RLt(pi.prices[i], price)}

\* (gamma / (1 - gamma)) * Q * E of the specification, E = 0 when Q = 0
ClosedForm(gamma, price, pi) ==
    LET B == Below(pi, price)
        Q == SumOver([i \in B |-> pi.probabilities[i]], B)
        D == SumOver([i \in B |-> RMul(pi.probabilities[i], RSub(price, pi.prices[i]))], B)
        E == IF Q = R(0) THEN R(0) ELSE RDiv(D, Q)
    IN  RMul(RMul(RDiv(gamma, RSub(R(1), gamma)), Q), E)

\* C4: the Analytic continuation value is (gamma/(1-gamma)) * Q * E, Q the
\* probability of the support prices strictly below price and E the weighted
\* mean discount over them, 0 when Q = 0; with support [100, 90, 80],
\* probabilities [0.6, 0.2, 0.2] and gamma 0.8 it is 24 at 100 and 0 at 80.
C4_AnalyticClosedForm ==
    IsCall("get_continuation_value") /\ ret.pre.kind = "Analytic" =>
        /\ ret.result = ClosedForm(ret.pre.gamma, ret.arg, price_info)
        /\ (Below(price_info, ret.arg) = {} => ret.result = R(0))
        /\ (price_info = ExamplePriceInfo /\ ret.pre.gamma = Frac(8, 10) =>
                /\ (ret.arg = R(100) => ret.result = R(24))
                /\ (ret.arg = R(80) => ret.result = R(0)))

\* the example of the specification: 24 at price 100
C4_Witness ==
    /\ IsCall("get_continuation_value")
    /\ ret.pre.kind = "Analytic"
    /\ price_info = ExamplePriceInfo
    /\ ret.pre.gamma = Frac(8, 10)
    /\ ret.arg = R(100)
    /\ ret.result = R(24)

\* the consumer is indifferent at this price: immediate utility equal to the
\* continuation value of its solver
Indifferent(c, price, pi) ==
    utility(c.utility_function, TRUE, price) = get_continuation_value(c, price, pi).value

\* the Analytic consumer built with the value, gamma and budget of c
AnalyticTwin(c) ==
    AnalyticConsumer(c.utility_function.param, c.gamma, c.budget_constraint)

\* C5: a Gridpoint consumer with a LinearUnitDemand utility that has not
\* purchased decides as an Analytic consumer of the same value, gamma and
\* budget does, for every price and descriptor at which neither is indifferent
\* (the discretization tolerance).
C5_SolversAgree ==
    /\ IsCall("should_purchase")
    /\ ret.pre.kind = "Gridpoint"
    /\ ret.pre.utility_function.class = "LinearUnitDemand"
    /\ ~ret.pre.has_purchased
    /\ ~Indifferent(ret.pre, ret.arg, price_info)
    /\ ~Indifferent(AnalyticTwin(ret.pre), ret.arg, price_info)
    => ret.result = should_purchase(AnalyticTwin(ret.pre), ret.arg, price_info).result

\* the probabilities of a descriptor sum to 1 and pair off with its prices
WellFormed(pi) ==
    /\ Len(pi.prices) = Len(pi.probabilities)
    /\ SumOver(pi.probabilities, DOMAIN pi.probabilities) = R(1)

\* C6: no descriptor exists whose probabilities do not sum to 1 or whose two
\* lists differ in length: constructing one fails.
C6_DescriptorWellFormed == WellFormed(price_info)

Built(c) ==
    /\ c.value_function # None
    /\ c.decision_function # None
    /\ c.m_grid # None

Unbuilt(c) ==
    /\ c.value_function = None
    /\ c.decision_function = None
    /\ c.m_grid = None

ConsultsSolver ==
    \/ IsCall("get_continuation_value")
    \/ IsCall("should_purchase") /\ ~ret.pre.has_purchased /\ ~OverBudget

\* C7: a Gridpoint consumer has no value function until the first
\* get_continuation_value call; that call builds value_function,
\* decision_function and m_grid over the grid of its own price; every later
\* call leaves the three unchanged and returns the built interpolant at the
\* queried price.
C7_LazyValueFunction ==
    /\ [](consumer.kind = "Gridpoint" =>
            /\ (IsCall("__init__") => Unbuilt(consumer))
            /\ (ConsultsSolver /\ ret.pre.value_function = None =>
                    /\ Built(consumer)
                    /\ consumer.m_grid = get_grid(ret.pre, ret.arg)
                    /\ consumer.value_function[1] = consumer.m_grid
                    /\ consumer.decision_function[1] = consumer.m_grid
                    /\ consumer.decision_function[2]
                            = solve_period(ret.pre, ret.arg, price_info).decisions)
            /\ (ConsultsSolver /\ ret.pre.value_function # None =>
                    /\ consumer.value_function = ret.pre.value_function
                    /\ consumer.decision_function = ret.pre.decision_function
                    /\ consumer.m_grid = ret.pre.m_grid)
            /\ (IsCall("get_continuation_value") /\ ret.pre.value_function # None =>
                    ret.result = Call(ret.pre.value_function, ret.arg)))
    /\ [][consumer.kind = "Gridpoint" /\ consumer.value_function = None
            /\ consumer'.value_function # None
            => ret'.op \in {"get_continuation_value", "should_purchase"}]_vars

\* a later query at another price, answered from the grid of the first
C7_Witness ==
    /\ IsCall("get_continuation_value")
    /\ ret.pre.kind = "Gridpoint"
    /\ ret.pre.value_function # None
    /\ ret.pre.m_grid # get_grid(ret.pre, ret.arg)
    /\ consumer.m_grid = ret.pre.m_grid

\* patience parameters over (0, 1)
PatienceLevels == {Frac(g, 10) : g \in 1..9}

C9_InverseRoundTrip ==
    /\ IsCall("marginal_utility")
    /\ ret.inverse_of # None
    /\ ret.pre.utility_function.class \in {"CRRA", "QuasiLinear"}
    => ret.result = ret.inverse_of

\* C10: when price is above the budget ceiling the purchase Euler error is
\* -inf and solve_period marks every grid point 0 (wait), whatever the
\* descriptor and the cached value function.
C10_OverBudgetNeverBuys ==
    IsCall("solve_period") /\ OverBudget =>
        /\ euler_error(ret.pre, TRUE, ret.arg, price_info) = NegInf
        /\ \A i \in DOMAIN ret.result[2] : ret.result[2][i] = R(0)

\* solve_period called over budget on a consumer holding a value function
C10_Witness ==
    /\ IsCall("solve_period")
    /\ OverBudget
    /\ ret.pre.value_function # None
    /\ Len(ret.result[2]) = ret.pre.grid_size

\* C11: CRRA(gamma) with gamma exactly 1 raises an error and yields no
\* instance (no consumer comes to hold one); with any other gamma it returns
\* a CRRA instance holding that gamma.
C11_CRRARejectsOne ==
    IsCall("CRRA") =>
        /\ (ret.arg = R(1) =>
                /\ ret.result = ValueError
                /\ consumer = ret.pre)
        /\ (ret.arg # R(1) =>
                /\ ret.result # ValueError
                /\ ret.result.class = "CRRA"
                /\ ret.result.param = ret.arg
                /\ consumer.utility_function = ret.result)

\* the rejected construction, the consumer left holding another utility function
C11_Witness ==
    /\ IsCall("CRRA")
    /\ ret.arg = R(1)
    /\ ret.result = ValueError
    /\ consumer.utility_function.class = "QuasiLinear"

\* the wait-value of a grid point: the probability-weighted sum, over the
\* price support, of the value function of c at each future price, or of the
\* utility of purchasing at that price when c holds no value function
WaitValue(c, pi) ==
    LET S == 1..ZipLen(pi)
    IN  SumOver([i \in S |->
                    RMul(pi.probabilities[i],
                         IF c.value_function # None
                         THEN Call(c.value_function, pi.prices[i])
                         ELSE utility(c.utility_function, TRUE, pi.prices[i]))], S)

\* C13: solve_period marks a grid point of affordability m purchase (1) iff
\* m >= price and utility(true, price) is strictly above the wait-value; every
\* grid point with m < price is marked wait (0).
C13_SolvePeriodRule ==
    IsCall("solve_period") =>
        \A i \in DOMAIN ret.result[1] :
            /\ (ret.result[2][i] = R(1)) =
                    (/\ RGe(ret.result[1][i], ret.arg)
                     /\ RGt(utility(ret.pre.utility_function, TRUE, ret.arg),
                            WaitValue(ret.pre, price_info)))
            /\ (RLt(ret.result[1][i], ret.arg) => ret.result[2][i] = R(0))

\* the reference price and the discount threshold of the firm's experiment
Discounted(price, f) == RLt(price, f.config.reference_price)
LowInventory(f) == RLt(f.inventory, f.config.min_inventory_threshold)

\* C14: a firm constructed with initial_inventory = I and reorder_quantity = R
\* starts with inventory = I and reorder_quantity = R; hence its first update
\* reorders only if the inventory left after sales (I less the capped sales)
\* is below R.
C14_ConstructedAsGiven ==
    /\ [](IsCall("ExperimentingFirm") =>
            /\ firm.inventory = ret.arg.initial_inventory
            /\ firm.reorder_quantity = ret.arg.reorder_quantity)
    /\ [][ret.op = "ExperimentingFirm" /\ ret'.op = "update" =>
            LET I == ret.arg.initial_inventory
                left == RSub(firm.inventory, RMin(ret'.arg, firm.inventory))
            IN  firm'.inventory # left =>
                    RLt(RSub(I, RMin(ret'.arg, I)), ret.arg.reorder_quantity)]_vars

\* C15: get_experimental_price, called directly or by update (which stores
\* the returned price in firm.price), never returns a price below the
\* reference price when the inventory at the call is below
\* min_inventory_threshold; the call that ends the experiment and the calls
\* after it included.
C15_NoDiscountWhenLow ==
    /\ (IsCall("get_experimental_price") =>
            ~(Discounted(ret.result, ret.pre) /\ LowInventory(ret.pre)))
    /\ (IsCall("update") =>
            ~(Discounted(firm.price, ret.pre) /\ LowInventory(ret.pre)))

====
